---- MODULE Spec2Model ----
(***************************************************************************)
(* Model of the `convert` command of banana_slides/cli.py: the batch       *)
(* analysis of images on a thread pool, the ordered collection of the      *)
(* results, the slide-size computation and the export call, together with  *)
(* the provider registry and the depth-bounded decomposer it configures.   *)
(***************************************************************************)
EXTENDS Integers, Sequences, FiniteSets, TLC

\* Python's None.
None == "None"

\* ------------------------------------------------------------------ bounds
\* Longest batch whose files are chosen freely.
MaxBatch == 3
\* Longest batch of one repeated file; it exceeds the width of the pool.
MaxPool == 5

\* Most registrations made on one registry.
MaxCalls == 3
\* Deepest nesting of regions inside regions in a source image.
MaxNest == 2
\* Most regions at the top level of a source image.
MaxRegions == 2
\* Largest depth limit of a configuration.
MaxDepth == 3

\* Most path arguments given to collect_image_paths.
MaxArgs == 3

\* Most pages the outline of create flattens to.
MaxPages == 3

\* Longest batch of a run that ranges over the options and the output
\* directory.
MaxShort == 1

\* ThreadPoolExecutor(max_workers=4)
max_workers == 4

\* ------------------------------------------------------------- input files
\* Image files on disk, each with the pixel size the analysis reports for it.
Files == {"fullhd.png", "hd.png", "xga.png", "edge.png"}

WidthOf(f) ==
  CASE f = "fullhd.png" -> 1920
    [] f = "hd.png"     -> 1280
    [] f = "xga.png"    -> 1024
    [] f = "edge.png"   -> 408

HeightOf(f) ==
  CASE f = "fullhd.png" -> 1080
    [] f = "hd.png"     -> 720
    [] f = "xga.png"    -> 768
    [] f = "edge.png"   -> 225

\* The batches convert is run on: every sequence of at most MaxBatch files,
\* and one file repeated up to MaxPool times.
SeqsUpTo(S, n) == UNION {[1..k -> S] : k \in 0..n}

Batches ==
  SeqsUpTo(Files, MaxBatch)
    \cup {[i \in 1..k |-> "fullhd.png"] : k \in (MaxBatch + 1)..MaxPool}

\* ------------------------------------------------------------------- state
VARIABLES
  pc,               \* position of the main thread inside convert
  image_paths,      \* result of collect_image_paths
  submitted,        \* number of executor.submit calls made so far
  status,           \* status[i]: state of the task submitted for image_paths[i]
  yielded,          \* indices whose future as_completed has already yielded
  results,          \* results = [None] * len(image_paths), then filled
  writes,           \* writes[i]: number of assignments made to results[i]
  editable_images,  \* editable_images, [] until the analysis block is left
  failed_idx,       \* idx of the future whose result() raised, 0 while none has
  error_log,        \* paths named by logger.error("Failed to analyze image ...")
  ratio_warnings,   \* image numbers named by the "is not 16:9" warnings
  slide,            \* <<slide_width, slide_height>> once computed, <<>> before
  extract_styles,   \* the --extract-styles/--no-extract-styles flag
  text_attribute_extractor,  \* None, or the extractor the factory created
  output_path,      \* output_path of lines 632-636, None before
  export_call,      \* the calls made to ExportService, each with its arguments
  outcome,          \* what convert printed last: none/no_images/success/failed
  extractor,        \* the --extractor option
  inpaint,          \* the --inpaint option
  existing_files,   \* the files that exist when convert starts, of OutputNames
  baidu_provider,   \* what create_baidu_inpaint_provider() returned, None before
  warning_log,      \* messages of the logger.warning calls of lines 155, 598
  queued_at_failure,  \* the tasks no worker had started when result() raised
  service_config,   \* the ServiceConfig of the run
  registry,         \* an InpaintProviderRegistry under construction or in use
  call_log,         \* the register_default / register calls made on it, in order
  returned,         \* <<selector, result>> of the last call when it was a resolve
  source_regions,   \* the regions nested in the image given to the Decomposer
  components,       \* the component tree the Decomposer produced, <<>> before
  image_args,       \* images: the path arguments given to collect_image_paths
  path_warnings,    \* paths named by collect_image_paths's warnings, in order
  pages,            \* create: the Page rows of the project, in insertion order
  page_idx,         \* create: idx of the running for loop over pages_data
  existing_images,  \* create: the generated image files present at export time
  create_export_call,  \* create: the image_paths of each ExportService call
  create_outcome    \* create: none / no_images / success / failed / raised

option_vars == <<extractor, inpaint, existing_files>>
log_vars == <<baidu_provider, warning_log>>
registry_vars == <<registry, call_log, returned>>
decomposer_vars == <<source_regions, components>>
collect_vars == <<image_args, path_warnings>>
create_vars == <<pages, page_idx, existing_images, create_export_call,
                 create_outcome>>
side_vars == <<collect_vars, create_vars>>

vars == <<pc, image_paths, submitted, status, yielded, results, writes,
          editable_images, failed_idx, error_log, ratio_warnings, slide,
          extract_styles, text_attribute_extractor, output_path,
          export_call, outcome, option_vars, service_config, registry_vars,
          decomposer_vars, side_vars, log_vars, queued_at_failure>>

\* What a command other than convert leaves alone, pc and image_paths apart.
idle_vars == <<submitted, status, yielded, results, writes, editable_images,
               failed_idx, error_log, ratio_warnings, slide, extract_styles,
               text_attribute_extractor, output_path, export_call, outcome,
               option_vars, service_config, registry_vars, decomposer_vars,
               log_vars, queued_at_failure>>

Indices == 1..Len(image_paths)

\* ------------------------------------------------------- helper operators
Abs(x) == IF x < 0 THEN -x ELSE x

\* futures[future] = idx: the future created by the k-th submit call maps to
\* the k-th index of enumerate(image_paths) (1-based here).
FutureIdx(k) == k

\* service.make_image_editable(path) of the task with index i: the editable
\* image of that file.
MakeImageEditable(i) ==
  [task   |-> i,
   path   |-> image_paths[i],
   width  |-> WidthOf(image_paths[i]),
   height |-> HeightOf(image_paths[i])]

\* The None entries of results = [None] * len(image_paths): an entry that
\* holds no editable image (it has no task, no path and no size).
NoImage == [task |-> 0, path |-> None, width |-> 0, height |-> 0]

Running == {i \in Indices : status[i] \in {"running", "blocked"}}
Finished == {i \in Indices : status[i] \in {"returned", "raised"}}

\* ------------------------------------------------------ provider registry
\* InpaintProviderRegistry: a default provider and per-selector overrides.
\* A selector is the kind of the region to inpaint.
Selectors == {"text", "graphic"}
Providers == {"generative", "baidu"}

EmptyRegistry ==
  [default |-> None, overrides |-> [sel \in Selectors |-> None]]

\* register_default(provider): sets the fallback of last resort.
RegisterDefault(reg, provider) == [reg EXCEPT !.default = provider]

\* register(selector, provider): adds a targeted override.
Register(reg, sel, provider) == [reg EXCEPT !.overrides[sel] = provider]

\* A resolve that ignores the default.
ResolveOverridesOnly(reg, sel) ==
  IF reg.overrides[sel] # None THEN reg.overrides[sel]
  ELSE "NoProviderAvailable"

\* resolve(selector): the override if present, else the default, else the
\* failure NoProviderAvailable.
Resolve(reg, sel) ==
  IF reg.overrides[sel] # None THEN reg.overrides[sel]
  ELSE IF reg.default # None THEN reg.default
  ELSE "NoProviderAvailable"

\* ---------------------------------------------------------- service config
ExtractorMethods == {"mineru", "hybrid"}
InpaintMethods == {"generative", "baidu", "hybrid"}

\* The registry ServiceConfig.from_defaults installs on its own.
DefaultsRegistry == RegisterDefault(EmptyRegistry, "from_defaults")

\* ServiceConfig.from_defaults(use_hybrid_extractor, use_hybrid_inpaint,
\* max_depth).
ServiceConfigFromDefaults(hybrid_extractor, hybrid_inpaint, depth) ==
  [use_hybrid_extractor |-> hybrid_extractor,
   use_hybrid_inpaint   |-> hybrid_inpaint,
   max_depth            |-> depth,
   inpaint_registry     |-> DefaultsRegistry]

\* No ServiceConfig built yet.
NoConfig ==
  [use_hybrid_extractor |-> FALSE,
   use_hybrid_inpaint   |-> FALSE,
   max_depth            |-> 0,
   inpaint_registry     |-> EmptyRegistry]

\* A configuration that allows one level of nested components.
create_service_config_nested(extractor_method, inpaint_method, provider) ==
  ServiceConfigFromDefaults(extractor_method = "hybrid",
                            inpaint_method = "hybrid", 2)

\* create_service_config(extractor_method, inpaint_method); baidu_provider is
\* what InpaintProviderFactory.create_baidu_inpaint_provider() returns, a
\* provider or None.
\* if inpaint_method != "hybrid" (line 142).
ReassignsAlways(inpaint_method) == TRUE

ReassignsRegistry(inpaint_method) == inpaint_method # "hybrid"

\* A fallback that forgets to register the generative provider.
ConfigureInpaintNoFallback(config, inpaint_method, provider) ==
  LET inpaint_registry ==
        IF inpaint_method = "generative"
          THEN RegisterDefault(EmptyRegistry, "generative")
        ELSE IF inpaint_method = "baidu" /\ provider # None
          THEN RegisterDefault(EmptyRegistry, provider)
        ELSE EmptyRegistry
  IN  IF inpaint_method # "hybrid"
        THEN [config EXCEPT !.inpaint_registry = inpaint_registry]
        ELSE config

\* Lines 141-161 on the config from_defaults returned: for a non-hybrid
\* inpaint method a new registry replaces the one of the config.
ConfigureInpaint(config, inpaint_method, provider) ==
  LET inpaint_registry ==
        IF inpaint_method = "generative"
          THEN RegisterDefault(EmptyRegistry, "generative")
        ELSE IF inpaint_method = "baidu"
          THEN IF provider # None
                 THEN RegisterDefault(EmptyRegistry, provider)
                 ELSE RegisterDefault(EmptyRegistry, "generative")
        ELSE EmptyRegistry
  IN  IF ReassignsRegistry(inpaint_method)
        THEN [config EXCEPT !.inpaint_registry = inpaint_registry]
        ELSE config

\* The logger.warning call of lines 155-157.
ConfigWarnings(inpaint_method, provider) ==
  IF inpaint_method = "baidu" /\ provider = None
    THEN <<"Baidu inpainting unavailable, falling back to generative">>
    ELSE <<>>

create_service_config(extractor_method, inpaint_method, provider) ==
  ConfigureInpaint(
    ServiceConfigFromDefaults(extractor_method = "hybrid",
                              inpaint_method = "hybrid", 1),
    inpaint_method, provider)

\* -------------------------------------------------------------- decomposer
\* What the extractor finds in an image: regions, each of a kind, each with
\* the regions nested inside its own crop (at most one per region here).
Kinds == {"text", "graphic"}

RECURSIVE RegionsNested(_)
RegionsNested(d) ==
  IF d = 0
    THEN {[kind |-> k, sub |-> <<>>] : k \in Kinds}
    ELSE {[kind |-> k, sub |-> s] :
            k \in Kinds,
            s \in {<<>>} \cup {<<r>> : r \in RegionsNested(d - 1)}}

\* A decomposer that recurses whatever the depth limit.
RecurseAlways(kind, depth, maxDepth) == kind = "graphic"

\* Step 3 of the decomposition: recurse into a region iff it is graphic and
\* depth + 1 < maxDepth.
Recurse(kind, depth, maxDepth) == kind = "graphic" /\ depth + 1 < maxDepth

\* The components of a list of regions found at the given depth.
RECURSIVE Decompose(_, _, _)
Decompose(regions, depth, maxDepth) ==
  [n \in 1..Len(regions) |->
     [kind     |-> regions[n].kind,
      depth    |-> depth,
      children |-> IF Recurse(regions[n].kind, depth, maxDepth)
                     THEN Decompose(regions[n].sub, depth + 1, maxDepth)
                     ELSE <<>>]]

\* ------------------------------------------------------ collect_image_paths
\* The working directory collect_image_paths is run in: two files, and the
\* directory slides with three files and a subdirectory named d.png.
RegularFiles ==
  {"a.png", "notes.txt", "slides/B.JPG", "slides/c.webp", "slides/readme.md"}
Directories == {"slides", "slides/d.png"}

\* The path arguments tried; missing.png does not exist.
ArgPaths == {"a.png", "notes.txt", "slides", "slides/c.webp", "missing.png"}

\* Path.is_file(), Path.is_dir()
is_file(path) == path \in RegularFiles
is_dir(path) == path \in Directories

\* path.suffix.lower()
SuffixLower(path) ==
  CASE path \in {"a.png", "missing.png", "slides/d.png"} -> ".png"
    [] path = "slides/B.JPG"     -> ".jpg"
    [] path = "slides/c.webp"    -> ".webp"
    [] path = "notes.txt"        -> ".txt"
    [] path = "slides/readme.md" -> ".md"
    [] OTHER                     -> ""

image_extensions == {".png", ".jpg", ".jpeg", ".webp", ".bmp"}

\* path.suffix.lower() in image_extensions
HasImageSuffix(path) == SuffixLower(path) \in image_extensions

\* str(path.resolve()): the absolute path, the working directory being /w.
PathResolve(path) == "/w/" \o path

\* path.iterdir(): the entries of a directory, in no particular order.
iterdir(path) ==
  IF path = "slides"
    THEN {"slides/c.webp", "slides/readme.md", "slides/B.JPG", "slides/d.png"}
    ELSE {}

\* The order of Path objects: by code point, so B.JPG < c.webp < d.png <
\* readme.md.
PathRank(path) ==
  CASE path = "slides/B.JPG"     -> 1
    [] path = "slides/c.webp"    -> 2
    [] path = "slides/d.png"     -> 3
    [] path = "slides/readme.md" -> 4

\* sorted(entries)
RECURSIVE sorted(_)
sorted(entries) ==
  IF entries = {} THEN <<>>
  ELSE LET first == CHOOSE e \in entries :
                      \A o \in entries : PathRank(e) <= PathRank(o)
       IN  <<first>> \o sorted(entries \ {first})

\* Lines 118-120: the entries of a directory that pass the suffix test, in
\* sorted order, resolved.
RECURSIVE DirImages(_, _)
DirImages(listing, n) ==
  IF n = 0 THEN <<>>
  ELSE IF HasImageSuffix(listing[n])
         THEN Append(DirImages(listing, n - 1), PathResolve(listing[n]))
         ELSE DirImages(listing, n - 1)

\* collect_image_paths over the first k arguments: the result list and the
\* paths named by its warnings.
RECURSIVE CollectLoop(_, _)
CollectLoop(paths, k) ==
  IF k = 0 THEN [result |-> <<>>, warnings |-> <<>>]
  ELSE LET prev == CollectLoop(paths, k - 1)
           path == paths[k]
       IN  IF is_file(path)
             THEN IF HasImageSuffix(path)
                    THEN [prev EXCEPT !.result = Append(@, PathResolve(path))]
                    ELSE [prev EXCEPT !.warnings =
                            Append(@, <<"Skipping non-image file", path>>)]
           ELSE IF is_dir(path)
             THEN [prev EXCEPT !.result =
                     @ \o DirImages(sorted(iterdir(path)),
                                    Len(sorted(iterdir(path))))]
             ELSE [prev EXCEPT !.warnings =
                     Append(@, <<"Path does not exist", path>>)]

collect_image_paths(paths) == CollectLoop(paths, Len(paths))

\* ------------------------------------------------------------------- Init
\* ------------------------------------------------------------------ create
\* Page(project_id, order_index=idx, outline_content, status="DRAFT")
\* (lines 284-290).
NewPage(idx) ==
  [order_index |-> idx, status |-> "DRAFT", generated_image_path |-> None]

\* Page.query.filter_by(project_id, order_index=idx).first(): the position
\* of that row.
PageOf(rows, idx) == CHOOSE k \in 1..Len(rows) : rows[k].order_index = idx

\* file_service.save_generated_image(image, project.id, page.id): the
\* relative path of the file written for the page.
SavedImagePath(idx) ==
  "pages/" \o <<"0", "1", "2", "3", "4", "5">>[idx + 1] \o ".png"

\* file_service.get_absolute_path(relative)
AbsolutePath(relative) == "/uploads/" \o relative

\* A loop that marks every page COMPLETED.
StatusAlwaysCompleted(image) == "COMPLETED"

\* Lines 371-378: the status after generate_image returned image.
StatusAfterImage(image) == IF image # None THEN "COMPLETED" ELSE "FAILED"

\* Lines 371-375: the path stored for the page, kept None without an image.
PathAfterImage(image, idx) ==
  IF image # None THEN SavedImagePath(idx) ELSE None

\* Page.query.filter_by(project_id).order_by(Page.order_index).all()
RECURSIVE OrderByIndex(_, _)
OrderByIndex(rows, left) ==
  IF left = {} THEN <<>>
  ELSE LET first == CHOOSE k \in left :
                      \A o \in left :
                        rows[k].order_index <= rows[o].order_index
       IN  <<rows[first]>> \o OrderByIndex(rows, left \ {first})

\* Lines 391-397 over the first n pages of the query: the absolute paths of
\* the pages that have an image path whose file exists.
RECURSIVE ExportImagePaths(_, _, _)
ExportImagePaths(ordered, n, existing) ==
  IF n = 0 THEN <<>>
  ELSE LET prev == ExportImagePaths(ordered, n - 1, existing)
           page == ordered[n]
       IN  IF /\ page.generated_image_path # None
              /\ AbsolutePath(page.generated_image_path) \in existing
             THEN Append(prev, AbsolutePath(page.generated_image_path))
             ELSE prev

\* ---------------------------------------------------------------- convert
\* convert has not run its first statement (position "start"), or is not
\* run at all (position "idle").
ConvertAt(position, paths, styles) ==
  /\ pc = position
  /\ image_paths = paths
  /\ submitted = 0
  /\ status = [i \in 1..Len(paths) |-> "unsubmitted"]
  /\ yielded = {}
  /\ results = <<>>
  /\ writes = [i \in 1..Len(paths) |-> 0]
  /\ editable_images = <<>>
  /\ failed_idx = 0
  /\ error_log = <<>>
  /\ ratio_warnings = <<>>
  /\ slide = <<>>
  /\ extract_styles = styles
  /\ text_attribute_extractor = None
  /\ output_path = None
  /\ export_call = <<>>
  /\ outcome = "none"
  /\ baidu_provider = None
  /\ warning_log = <<>>
  /\ queued_at_failure = {}

\* The click defaults of --extractor and --inpaint, and no file at the
\* output location.
DefaultOptions ==
  /\ extractor = "hybrid"
  /\ inpaint = "hybrid"
  /\ existing_files = {}

RegistryIdle ==
  /\ registry = EmptyRegistry
  /\ call_log = <<>>
  /\ returned = <<>>

DecomposerIdle ==
  /\ source_regions = <<>>
  /\ components = <<>>

CollectIdle ==
  /\ image_args = <<>>
  /\ path_warnings = <<>>

CreateIdle ==
  /\ pages = <<>>
  /\ page_idx = 0
  /\ existing_images = {}
  /\ create_export_call = <<>>
  /\ create_outcome = "none"

SideIdle == CollectIdle /\ CreateIdle

\* convert is started on a batch, with the default --extractor and --inpaint.
Init ==
  /\ \E paths \in Batches, styles \in BOOLEAN : ConvertAt("start", paths, styles)
  /\ DefaultOptions
  /\ service_config = NoConfig
  /\ RegistryIdle
  /\ DecomposerIdle
  /\ SideIdle

\* ---------------------------------------------------------------- actions
\* convert, lines 543-559: no image -> message and return; otherwise build the
\* service and enter the pool.
NoGuard == FALSE

NoImagesGuard == image_paths = <<>>

Begin ==
  /\ pc = "start"
  /\ IF NoImagesGuard
       THEN /\ pc' = "done"
            /\ outcome' = "no_images"
            /\ UNCHANGED service_config
       ELSE /\ pc' = "configure"
            /\ outcome' = outcome
            /\ service_config' =
                 ServiceConfigFromDefaults(extractor = "hybrid",
                                           inpaint = "hybrid", 1)
  /\ UNCHANGED <<image_paths, submitted, status, yielded, results, writes,
                 editable_images, failed_idx, error_log, ratio_warnings,
                 slide, extract_styles, text_attribute_extractor,
                 output_path, export_call>>
  /\ UNCHANGED <<option_vars, registry_vars, decomposer_vars, side_vars,
                 log_vars,
                 queued_at_failure>>

\* create_service_config, lines 141-163, on the config from_defaults built:
\* the Baidu factory is called for --inpaint baidu only and returns a
\* provider or None.
Configure ==
  /\ pc = "configure"
  /\ \E provider \in IF inpaint = "baidu" THEN {None, "baidu"} ELSE {None} :
       /\ baidu_provider' = provider
       /\ service_config' = ConfigureInpaint(service_config, inpaint, provider)
       /\ warning_log' = warning_log \o ConfigWarnings(inpaint, provider)
  /\ pc' = "submit"
  /\ UNCHANGED <<image_paths, submitted, status, yielded, results, writes,
                 editable_images, failed_idx, error_log, ratio_warnings,
                 slide, extract_styles, text_attribute_extractor,
                 output_path, export_call, outcome>>
  /\ UNCHANGED <<option_vars, registry_vars, decomposer_vars, side_vars,
                 queued_at_failure>>

\* One executor.submit of the dict comprehension (lines 561-564).
Submit ==
  /\ pc = "submit"
  /\ submitted < Len(image_paths)
  /\ submitted' = submitted + 1
  /\ status' = [status EXCEPT ![submitted + 1] = "queued"]
  /\ UNCHANGED <<pc, image_paths, yielded, results, writes, editable_images,
                 failed_idx, error_log, ratio_warnings, slide, extract_styles,
                 text_attribute_extractor, output_path, export_call, outcome>>
  /\ UNCHANGED <<option_vars, service_config, registry_vars, decomposer_vars,
                 side_vars, log_vars,
                 queued_at_failure>>

\* Every path is submitted: results = [None] * len(image_paths) (line 566)
\* and the as_completed loop is entered.
EnterLoop ==
  /\ pc = "submit"
  /\ submitted = Len(image_paths)
  /\ results' = [i \in Indices |-> NoImage]
  /\ pc' = "collect"
  /\ UNCHANGED <<image_paths, submitted, status, yielded, writes,
                 editable_images, failed_idx, error_log, ratio_warnings,
                 slide, extract_styles, text_attribute_extractor,
                 output_path, export_call, outcome>>
  /\ UNCHANGED <<option_vars, service_config, registry_vars, decomposer_vars,
                 side_vars, log_vars,
                 queued_at_failure>>

\* A pool that starts a thread for every submitted task.
WorkerAlwaysFree == TRUE

\* A free worker of the pool takes the oldest queued work item.
WorkerFree == Cardinality(Running) < max_workers

StartTask(i) ==
  /\ status[i] = "queued"
  /\ \A j \in 1..(i - 1) : status[j] # "queued"
  /\ WorkerFree
  /\ status' = [status EXCEPT ![i] = "running"]
  /\ UNCHANGED <<pc, image_paths, submitted, yielded, results, writes,
                 editable_images, failed_idx, error_log, ratio_warnings,
                 slide, extract_styles, text_attribute_extractor,
                 output_path, export_call, outcome>>
  /\ UNCHANGED <<option_vars, service_config, registry_vars, decomposer_vars,
                 side_vars, log_vars,
                 queued_at_failure>>

\* make_image_editable returns, raises, or waits for a backend that never
\* answers.
FinishTask(i) ==
  /\ status[i] = "running"
  /\ \E s \in {"returned", "raised"} : status' = [status EXCEPT ![i] = s]
  /\ UNCHANGED <<pc, image_paths, submitted, yielded, results, writes,
                 editable_images, failed_idx, error_log, ratio_warnings,
                 slide, extract_styles, text_attribute_extractor,
                 output_path, export_call, outcome>>
  /\ UNCHANGED <<option_vars, service_config, registry_vars, decomposer_vars,
                 side_vars, log_vars,
                 queued_at_failure>>

BlockTask(i) ==
  /\ status[i] = "running"
  /\ status' = [status EXCEPT ![i] = "blocked"]
  /\ UNCHANGED <<pc, image_paths, submitted, yielded, results, writes,
                 editable_images, failed_idx, error_log, ratio_warnings,
                 slide, extract_styles, text_attribute_extractor,
                 output_path, export_call, outcome>>
  /\ UNCHANGED <<option_vars, service_config, registry_vars, decomposer_vars,
                 side_vars, log_vars,
                 queued_at_failure>>

\* as_completed(futures) yields a finished future it has not yielded yet.
CanYield(k) == k \in Finished /\ k \notin yielded

\* A collector that stores results in the order of completion.
SlotOfByArrival(k) == Cardinality(yielded) + 1

\* The slot the collector writes for the future of the k-th submit.
SlotOf(k) == FutureIdx(k)

\* A handler that names the first path of the batch, whichever task failed.
LoggedPathFirst(idx) == image_paths[1]

\* The path logged when future.result() raises (lines 582-584).
LoggedPath(idx) == image_paths[idx]

\* One iteration of `for future in as_completed(futures)` (lines 576-585).
Collect(k) ==
  /\ pc = "collect"
  /\ CanYield(k)
  /\ yielded' = yielded \cup {k}
  /\ LET idx == SlotOf(k) IN
       IF status[k] = "returned"
         THEN /\ results' = [results EXCEPT ![idx] = MakeImageEditable(k)]
              /\ writes' = [writes EXCEPT ![idx] = @ + 1]
              /\ UNCHANGED <<pc, failed_idx, error_log, queued_at_failure>>
         ELSE /\ error_log' = Append(error_log, LoggedPath(idx))
              /\ failed_idx' = idx
              /\ pc' = "unwind"
              /\ queued_at_failure' = {i \in Indices : status[i] = "queued"}
              /\ UNCHANGED <<results, writes>>
  /\ UNCHANGED <<image_paths, submitted, status, editable_images,
                 ratio_warnings, slide, extract_styles,
                 text_attribute_extractor, output_path, export_call, outcome>>
  /\ UNCHANGED <<option_vars, service_config, registry_vars, decomposer_vars,
                 side_vars, log_vars>>

\* The loop is exhausted, the executor's with-block is left (shutdown finds
\* every task finished) and editable_images = results (line 587).
LoopLeftEarly == yielded # {}

LoopExhausted == yielded = Indices

AnalysisJoin ==
  /\ pc = "collect"
  /\ LoopExhausted
  /\ editable_images' = results
  /\ pc' = "styles"
  /\ UNCHANGED <<image_paths, submitted, status, yielded, results, writes,
                 failed_idx, error_log, ratio_warnings, slide, extract_styles,
                 text_attribute_extractor, output_path, export_call, outcome>>
  /\ UNCHANGED <<option_vars, service_config, registry_vars, decomposer_vars,
                 side_vars, log_vars,
                 queued_at_failure>>

\* The exception leaves the with-block: ThreadPoolExecutor.__exit__ calls
\* shutdown(wait=True), which cancels nothing and returns once every submitted
\* task has finished; then the handler of lines 654-656 reports the failure.
\* (ShutdownCancels: a shutdown that drops what is pending and returns.)
ShutdownCancels == TRUE

ShutdownWaits == Finished = Indices

AbortJoin ==
  /\ pc = "unwind"
  /\ ShutdownWaits
  /\ pc' = "done"
  /\ outcome' = "failed"
  /\ UNCHANGED <<image_paths, submitted, status, yielded, results, writes,
                 editable_images, failed_idx, error_log, ratio_warnings,
                 slide, extract_styles, text_attribute_extractor,
                 output_path, export_call>>
  /\ UNCHANGED <<option_vars, service_config, registry_vars, decomposer_vars,
                 side_vars, log_vars,
                 queued_at_failure>>

\* An extractor created whatever the flag says.
CreatedAlways(styles, created) ==
  IF created THEN "caption_model_extractor" ELSE None

\* Lines 590-598: the extractor is created only with --extract-styles; a
\* factory that raises leaves it None.
CreatedExtractor(styles, created) ==
  IF styles /\ created THEN "caption_model_extractor" ELSE None

\* The logger.warning call of line 598.
StyleWarnings(styles, created) ==
  IF styles /\ ~created THEN <<"Failed to create text extractor">> ELSE <<>>

\* Step 2 (lines 589-600); created tells whether the factory returned.
ExtractStyles ==
  /\ pc = "styles"
  /\ \E created \in IF extract_styles THEN BOOLEAN ELSE {TRUE} :
       /\ text_attribute_extractor' = CreatedExtractor(extract_styles, created)
       /\ warning_log' = warning_log \o StyleWarnings(extract_styles, created)
  /\ pc' = "size"
  /\ UNCHANGED <<image_paths, submitted, status, yielded, results, writes,
                 editable_images, failed_idx, error_log, ratio_warnings,
                 slide, extract_styles, output_path, export_call, outcome>>
  /\ UNCHANGED <<option_vars, service_config, registry_vars, decomposer_vars,
                 side_vars, baidu_provider, queued_at_failure>>

\* The running minimum of lines 608-609 and 620-621 is float("inf") or a
\* number: <<>> stands for float("inf") and <<v>> for the number v.
Inf == <<>>

\* max in place of min.
PyMax(acc, x) == IF acc = Inf THEN <<x>> ELSE IF x > acc[1] THEN <<x>> ELSE acc

\* Python's min(acc, x): x when x < acc (always so for acc = inf), else acc.
PyMin(acc, x) == IF acc = Inf THEN <<x>> ELSE IF x < acc[1] THEN <<x>> ELSE acc

\* ratio_diff > ASPECT_RATIO_TOLERANCE (lines 612-615) for integer w, h, as
\* Python evaluates it in double precision.  With exact rationals
\*   |w/h - 16/9| / (16/9) > 0.02   <=>   50 * |9w - 16h| > 16h.
\* The doubles agree with the rationals wherever the two sides differ; where
\* they are equal (an image exactly 2% off, e.g. 408x225, 136x75, 392x225) the
\* rounded quotient is 0.020000000000000004, which compares greater than the
\* double 0.02, so the test is true there too.
RatioOutOfTolerance(w, h) == 50 * Abs(9 * w - 16 * h) >= 16 * h

\* The loop of lines 611-621 over the first k images: the running minima and
\* the warnings logged so far ("Image {idx + 1} is not 16:9").
RECURSIVE SizeLoop(_, _)
SizeLoop(images, k) ==
  IF k = 0
    THEN [min_width |-> Inf, min_height |-> Inf, warnings |-> <<>>]
    ELSE LET prev == SizeLoop(images, k - 1)
             img  == images[k]
         IN  [min_width  |-> PyMin(prev.min_width, img.width),
              min_height |-> PyMin(prev.min_height, img.height),
              warnings   |-> IF RatioOutOfTolerance(img.width, img.height)
                               THEN Append(prev.warnings, k)
                               ELSE prev.warnings]

\* Lines 623-627: the fallback for an empty list, then the int() conversions.
SlideSizeOf(images) ==
  LET loop == SizeLoop(images, Len(images))
  IN  IF images = <<>>
        THEN <<1920, 1080>>
        ELSE <<loop.min_width[1], loop.min_height[1]>>

\* The number of entries the loop of lines 611-621 handles before it meets
\* an entry that is None (all of them when there is none).
HandledBeforeNone(images) ==
  IF \E i \in 1..Len(images) : images[i] = NoImage
    THEN (CHOOSE i \in 1..Len(images) :
            /\ images[i] = NoImage
            /\ \A j \in 1..(i - 1) : images[j] # NoImage) - 1
    ELSE Len(images)

\* Lines 605-627.  An entry that is None has no width: AttributeError at
\* line 612, caught by the handler of lines 654-656; the warnings for the
\* entries before it have been logged by then.
SlideSize ==
  /\ pc = "size"
  /\ IF \E i \in 1..Len(editable_images) : editable_images[i] = NoImage
       THEN /\ pc' = "done"
            /\ outcome' = "failed"
            /\ ratio_warnings' =
                 SizeLoop(editable_images,
                          HandledBeforeNone(editable_images)).warnings
            /\ UNCHANGED slide
       ELSE /\ ratio_warnings' =
                 SizeLoop(editable_images, Len(editable_images)).warnings
            /\ slide' = SlideSizeOf(editable_images)
            /\ pc' = "export"
            /\ UNCHANGED outcome
  /\ UNCHANGED <<image_paths, submitted, status, yielded, results, writes,
                 editable_images, failed_idx, error_log, extract_styles,
                 text_attribute_extractor, output_path, export_call>>
  /\ UNCHANGED <<option_vars, service_config, registry_vars, decomposer_vars,
                 side_vars, log_vars,
                 queued_at_failure>>

\* Lines 632-636: the requested output name, or its "_1" variant when a file
\* of that name exists.
OutputNames == {"output", "output_1"}

OutputPath(existing) ==
  IF "output" \in existing THEN "output_1" ELSE "output"

\* Lines 632-656: the output path, the ExportService call with the images,
\* the path and the slide size, and the report of its success or failure.
Export ==
  /\ pc = "export"
  /\ \E written \in BOOLEAN :
       /\ output_path' = OutputPath(existing_files)
       /\ export_call' = Append(export_call,
            [editable_images          |-> editable_images,
             output_file              |-> OutputPath(existing_files),
             slide_width_pixels       |-> slide[1],
             slide_height_pixels      |-> slide[2],
             text_attribute_extractor |-> text_attribute_extractor])
       /\ outcome' = IF written THEN "success" ELSE "failed"
  /\ pc' = "done"
  /\ UNCHANGED <<image_paths, submitted, status, yielded, results, writes,
                 editable_images, failed_idx, error_log, ratio_warnings,
                 slide, extract_styles, text_attribute_extractor>>
  /\ UNCHANGED <<option_vars, service_config, registry_vars, decomposer_vars,
                 side_vars, log_vars,
                 queued_at_failure>>

Next ==
  \/ Begin
  \/ Configure
  \/ Submit
  \/ EnterLoop
  \/ \E i \in Indices : StartTask(i)
  \/ \E i \in Indices : FinishTask(i)
  \/ \E i \in Indices : BlockTask(i)
  \/ \E k \in Indices : Collect(k)
  \/ AnalysisJoin
  \/ AbortJoin
  \/ ExtractStyles
  \/ SlideSize
  \/ Export

Spec == Init /\ [][Next]_vars

\* ------------------------------------------- the registry, used on its own
\* Calls made on one registry: at most MaxCalls registrations, and resolves.
RegistryInit ==
  /\ ConvertAt("idle", <<>>, FALSE)
  /\ DefaultOptions
  /\ service_config = NoConfig
  /\ RegistryIdle
  /\ DecomposerIdle
  /\ SideIdle

CallRegisterDefault(provider) ==
  /\ Len(call_log) < MaxCalls
  /\ registry' = RegisterDefault(registry, provider)
  /\ call_log' = Append(call_log, <<"register_default", None, provider>>)
  /\ returned' = <<>>

CallRegister(sel, provider) ==
  /\ Len(call_log) < MaxCalls
  /\ registry' = Register(registry, sel, provider)
  /\ call_log' = Append(call_log, <<"register", sel, provider>>)
  /\ returned' = <<>>

CallResolve(sel) ==
  /\ returned' = <<sel, Resolve(registry, sel)>>
  /\ UNCHANGED <<registry, call_log>>

convert_vars == <<pc, image_paths, submitted, status, yielded, results, writes,
                  editable_images, failed_idx, error_log, ratio_warnings,
                  slide, extract_styles, text_attribute_extractor,
                  output_path, export_call, outcome, option_vars>>

RegistryNext ==
  \/ \E p \in Providers :
       CallRegisterDefault(p)
         /\ UNCHANGED <<convert_vars, service_config, decomposer_vars,
                      side_vars, log_vars,
                 queued_at_failure>>
  \/ \E sel \in Selectors, p \in Providers :
       CallRegister(sel, p)
         /\ UNCHANGED <<convert_vars, service_config, decomposer_vars,
                      side_vars, log_vars,
                 queued_at_failure>>
  \/ \E sel \in Selectors :
       CallResolve(sel)
         /\ UNCHANGED <<convert_vars, service_config, decomposer_vars,
                      side_vars, log_vars,
                 queued_at_failure>>

RegistrySpec == RegistryInit /\ [][RegistryNext]_vars

\* ----------------------------------------- the decomposer, used on its own
\* One image is decomposed under a configuration: one the CLI builds, or one
\* with a depth limit of up to MaxDepth.
CliConfigs ==
  {create_service_config(e, i, b) :
     e \in ExtractorMethods, i \in InpaintMethods, b \in {None, "baidu"}}

DeepConfigs ==
  {ServiceConfigFromDefaults(TRUE, TRUE, d) : d \in 1..MaxDepth}

DecomposerInit ==
  /\ ConvertAt("decompose", <<>>, FALSE)
  /\ DefaultOptions
  /\ service_config \in CliConfigs \cup DeepConfigs
  /\ RegistryIdle
  /\ source_regions \in SeqsUpTo(RegionsNested(MaxNest), MaxRegions)
  /\ components = <<>>
  /\ SideIdle

\* make_image_editable on the image: the component tree from depth 0.
DecomposeImage ==
  /\ pc = "decompose"
  /\ components' = Decompose(source_regions, 0, service_config.max_depth)
  /\ pc' = "decomposed"
  /\ UNCHANGED <<image_paths, submitted, status, yielded, results, writes,
                 editable_images, failed_idx, error_log, ratio_warnings,
                 slide, extract_styles, text_attribute_extractor,
                 output_path, export_call, outcome, option_vars,
                 service_config, registry_vars, source_regions,
                 side_vars, log_vars,
                 queued_at_failure>>

DecomposerNext == DecomposeImage

DecomposerSpec == DecomposerInit /\ [][DecomposerNext]_vars

\* --------------------------------------- collect_image_paths, on its own
CollectInit ==
  /\ ConvertAt("collect_paths", <<>>, FALSE)
  /\ DefaultOptions
  /\ service_config = NoConfig
  /\ RegistryIdle
  /\ DecomposerIdle
  /\ image_args \in SeqsUpTo(ArgPaths, MaxArgs)
  /\ path_warnings = <<>>
  /\ CreateIdle

\* image_paths = collect_image_paths(images) (line 543).
CollectImagePaths ==
  /\ pc = "collect_paths"
  /\ image_paths' = collect_image_paths(image_args).result
  /\ path_warnings' = collect_image_paths(image_args).warnings
  /\ pc' = "collected"
  /\ UNCHANGED <<submitted, status, yielded, results, writes,
                 editable_images, failed_idx, error_log, ratio_warnings,
                 slide, extract_styles, text_attribute_extractor,
                 output_path, export_call, outcome, option_vars,
                 service_config, registry_vars, decomposer_vars, image_args,
                 log_vars, queued_at_failure, create_vars>>

CollectNext == CollectImagePaths

CollectSpec == CollectInit /\ [][CollectNext]_vars

\* ------------------- convert over its options and the output directory
\* convert on a short batch, with every --extractor and --inpaint choice and
\* every set of files present at the output path and its renamed variant.
OptionsInit ==
  /\ \E paths \in SeqsUpTo(Files, MaxShort), styles \in BOOLEAN :
       ConvertAt("start", paths, styles)
  /\ extractor \in ExtractorMethods
  /\ inpaint \in InpaintMethods
  /\ existing_files \in SUBSET OutputNames
  /\ service_config = NoConfig
  /\ RegistryIdle
  /\ DecomposerIdle
  /\ SideIdle

OptionsSpec == OptionsInit /\ [][Next]_vars

\* ------------------------------------------------ the create command
CreateInit ==
  /\ ConvertAt("create_pages", <<>>, FALSE)
  /\ DefaultOptions
  /\ service_config = NoConfig
  /\ RegistryIdle
  /\ DecomposerIdle
  /\ SideIdle

\* Lines 279-292: the outline is flattened to n pages, created DRAFT.
CreatePages ==
  /\ pc = "create_pages"
  /\ \E n \in 0..MaxPages : pages' = [k \in 1..n |-> NewPage(k - 1)]
  /\ page_idx' = 0
  /\ pc' = "create_descriptions"
  /\ UNCHANGED <<existing_images, create_export_call, create_outcome>>
  /\ UNCHANGED <<image_paths, idle_vars, collect_vars>>

\* One iteration of the description loop (lines 310-332):
\* generate_page_description returns and the page is committed as
\* DESCRIPTION_GENERATED, or it raises and create is left.
GenerateDescription ==
  /\ pc = "create_descriptions"
  /\ page_idx < Len(pages)
  /\ \E raised \in BOOLEAN :
       IF raised
         THEN /\ pc' = "create_done"
              /\ create_outcome' = "raised"
              /\ UNCHANGED <<pages, page_idx>>
         ELSE /\ pages' = [pages EXCEPT ![PageOf(pages, page_idx)].status =
                             "DESCRIPTION_GENERATED"]
              /\ page_idx' = page_idx + 1
              /\ UNCHANGED <<pc, create_outcome>>
  /\ UNCHANGED <<existing_images, create_export_call>>
  /\ UNCHANGED <<image_paths, idle_vars, collect_vars>>

\* The description loop is exhausted; the image loop starts (line 335).
StartImages ==
  /\ pc = "create_descriptions"
  /\ page_idx = Len(pages)
  /\ page_idx' = 0
  /\ pc' = "create_images"
  /\ UNCHANGED <<pages, existing_images, create_export_call, create_outcome>>
  /\ UNCHANGED <<image_paths, idle_vars, collect_vars>>

\* One iteration of the image loop (lines 336-384): generate_image returns an
\* image or nothing, or a call of the iteration raises and create is left.
GenerateImage ==
  /\ pc = "create_images"
  /\ page_idx < Len(pages)
  /\ \E image \in {"image", None, "raised"} :
       IF image = "raised"
         THEN /\ pc' = "create_done"
              /\ create_outcome' = "raised"
              /\ UNCHANGED <<pages, page_idx>>
         ELSE /\ pages' =
                   [pages EXCEPT
                      ![PageOf(pages, page_idx)].generated_image_path =
                         IF image # None THEN PathAfterImage(image, page_idx)
                                         ELSE @,
                      ![PageOf(pages, page_idx)].status =
                         StatusAfterImage(image)]
              /\ page_idx' = page_idx + 1
              /\ UNCHANGED <<pc, create_outcome>>
  /\ UNCHANGED <<existing_images, create_export_call>>
  /\ UNCHANGED <<image_paths, idle_vars, collect_vars>>

\* Lines 386-416: the pages are read in order_index order, the paths of the
\* image files that exist are collected, and the export is called with them
\* unless there is none.
CreateExport ==
  /\ pc = "create_images"
  /\ page_idx = Len(pages)
  /\ \E existing \in SUBSET {AbsolutePath(SavedImagePath(k - 1)) :
                                k \in 1..Len(pages)} :
       LET ordered == OrderByIndex(pages, 1..Len(pages))
           paths   == ExportImagePaths(ordered, Len(ordered), existing)
       IN  /\ existing_images' = existing
           /\ IF paths = <<>>
                THEN /\ create_outcome' = "no_images"
                     /\ UNCHANGED create_export_call
                ELSE /\ create_export_call' = Append(create_export_call, paths)
                     /\ \E written \in BOOLEAN :
                          create_outcome' =
                            IF written THEN "success" ELSE "failed"
  /\ pc' = "create_done"
  /\ UNCHANGED <<pages, page_idx>>
  /\ UNCHANGED <<image_paths, idle_vars, collect_vars>>

CreateNext ==
  \/ CreatePages
  \/ GenerateDescription
  \/ StartImages
  \/ GenerateImage
  \/ CreateExport

CreateSpec == CreateInit /\ [][CreateNext]_vars

\* Every thread is scheduled: the main thread and the pool's workers are OS
\* threads, so a step that stays possible is eventually taken.  A call that
\* waits on its backend (BlockTask) has no further step.
FairSpec == Spec /\ WF_vars(Next)

\* ================================================================= claims
\* C1: result slot i is written at most once and only with the result of the
\* task that was submitted for image_paths[i], whatever the completion order.
C1_OrderedSlots ==
  \A i \in DOMAIN results :
    /\ writes[i] <= 1
    /\ writes[i] = 0 <=> results[i] = NoImage
    /\ results[i] # NoImage =>
         /\ results[i].task = i
         /\ results[i].path = image_paths[i]

\* A later image's result is stored while an earlier image's slot is empty.
C1_Witness ==
  /\ pc = "collect"
  /\ \E i, j \in DOMAIN results :
       /\ i < j
       /\ results[i] = NoImage
       /\ results[j] # NoImage
       /\ image_paths[i] # image_paths[j]

\* C2: fail-fast.  Once a task has raised, the export is never called and
\* convert never reports success; when the collector observes a failure it
\* logs that image's path (and nothing else), stops collecting, uses no
\* result (editable_images stays empty), computes no slide size, chooses no
\* output path, and ends with "Conversion failed".
C2_FailFast ==
  /\ (\E i \in Indices : status[i] = "raised") =>
       /\ export_call = <<>>
       /\ outcome # "success"
  /\ failed_idx = 0 => error_log = <<>>
  /\ failed_idx # 0 =>
       /\ status[failed_idx] = "raised"
       /\ error_log = <<image_paths[failed_idx]>>
       /\ pc \in {"unwind", "done"}
       /\ pc = "done" => outcome = "failed"
       /\ editable_images = <<>>
       /\ slide = <<>>
       /\ output_path = None
       /\ export_call = <<>>

\* A failed run in which the result of another, different image was stored.
C2_Witness ==
  /\ pc = "done"
  /\ outcome = "failed"
  /\ failed_idx > 1
  /\ \E j \in Indices :
       /\ j # failed_idx
       /\ results[j] # NoImage
       /\ image_paths[j] # image_paths[failed_idx]

\* C3: fan-in barrier.  From the moment the analysis block is left (style
\* step, slide size, export) every submitted task has returned, and every
\* export call receives one non-empty entry per input image, in input order.
C3_Barrier ==
  /\ (pc \in {"styles", "size", "export"} \/ slide # <<>> \/ export_call # <<>>) =>
       /\ submitted = Len(image_paths)
       /\ \A i \in Indices : status[i] = "returned"
  /\ \A c \in 1..Len(export_call) :
       /\ Len(export_call[c].editable_images) = Len(image_paths)
       /\ \A i \in Indices :
            /\ export_call[c].editable_images[i] # NoImage
            /\ export_call[c].editable_images[i].path = image_paths[i]

C3_Witness ==
  /\ Len(export_call) = 1
  /\ Len(export_call[1].editable_images) >= 2

\* C4: at most 4 make_image_editable calls are in progress at any moment, and
\* an image beyond the fourth is started only after an earlier call finished.
C4_BoundedPool ==
  /\ Cardinality({i \in Indices : status[i] \in {"running", "blocked"}}) <= 4
  /\ \A i \in Indices :
       (i > 4 /\ status[i] \notin {"unsubmitted", "queued"}) =>
         \E j \in 1..(i - 1) : status[j] \in {"returned", "raised"}

\* Four calls in progress while a fifth task waits in the queue.
C4_Witness ==
  /\ Cardinality({i \in Indices : status[i] \in {"running", "blocked"}}) = 4
  /\ \E i \in Indices : status[i] = "queued"

\* v is the least element of S.
IsMinOver(v, S) == v \in S /\ \A x \in S : v <= x

\* C5: for a non-empty batch the slide size passed to the export is the
\* minimum width and the minimum height over the images, each axis on its own.
C5_CanvasIsPerAxisMin ==
  \A c \in 1..Len(export_call) :
    image_paths # <<>> =>
      /\ IsMinOver(export_call[c].slide_width_pixels,
                   {WidthOf(image_paths[i]) : i \in Indices})
      /\ IsMinOver(export_call[c].slide_height_pixels,
                   {HeightOf(image_paths[i]) : i \in Indices})
      /\ image_paths = <<"fullhd.png", "hd.png">> =>
           /\ export_call[c].slide_width_pixels = 1280
           /\ export_call[c].slide_height_pixels = 720

\* The width comes from one image and the height from another.
C5_Witness ==
  /\ Len(export_call) = 1
  /\ export_call[1].slide_width_pixels = 1024
  /\ export_call[1].slide_height_pixels = 720

\* The registrations recorded in the call log.
DefaultCalls == {n \in 1..Len(call_log) : call_log[n][1] = "register_default"}
OverrideCalls(sel) ==
  {n \in 1..Len(call_log) : call_log[n][1] = "register" /\ call_log[n][2] = sel}
Latest(S) == CHOOSE n \in S : \A m \in S : m <= n

\* C6: after any sequence of register_default and register calls, resolve
\* returns the override last registered for the selector if there is one,
\* otherwise the default last registered, and fails with NoProviderAvailable
\* only when neither exists; with a default registered it returns a provider.
C6_ResolveOrder ==
  returned # <<>> =>
    LET sel == returned[1]
        got == returned[2]
    IN  /\ OverrideCalls(sel) # {} =>
             got = call_log[Latest(OverrideCalls(sel))][3]
        /\ (OverrideCalls(sel) = {} /\ DefaultCalls # {}) =>
             got = call_log[Latest(DefaultCalls)][3]
        /\ got = "NoProviderAvailable" <=>
             (OverrideCalls(sel) = {} /\ DefaultCalls = {})
        /\ DefaultCalls # {} => got \in Providers

\* resolve falls back to the default although another selector has an
\* override for a different provider.
C6_Witness ==
  /\ returned # <<>>
  /\ OverrideCalls(returned[1]) = {}
  /\ DefaultCalls # {}
  /\ returned[2] = call_log[Latest(DefaultCalls)][3]
  /\ \E n \in 1..Len(call_log) :
       /\ call_log[n][1] = "register"
       /\ call_log[n][3] # returned[2]

\* Every component of the tree is at its level's depth, below maxDepth, and
\* childless when it is text.
RECURSIVE DepthBounded(_, _, _)
DepthBounded(comps, depth, maxDepth) ==
  \A n \in 1..Len(comps) :
    /\ comps[n].depth = depth
    /\ comps[n].depth < maxDepth
    /\ comps[n].kind = "text" => comps[n].children = <<>>
    /\ DepthBounded(comps[n].children, depth + 1, maxDepth)

\* C7: every component the Decomposer produces lies at a depth below
\* max_depth, one level below its parent; text components have no children;
\* every top-level region yields one component; and under a configuration
\* the CLI builds (max_depth = 1) every component is top-level and childless.
C7_DepthBounded ==
  pc = "decomposed" =>
    /\ Len(components) = Len(source_regions)
    /\ DepthBounded(components, 0, service_config.max_depth)
    /\ service_config \in CliConfigs =>
         \A n \in 1..Len(components) :
           /\ components[n].depth = 0
           /\ components[n].children = <<>>

\* With max_depth = 2 a graphic region nested in a graphic region becomes a
\* child component, and what is nested in that child is cut off; a text
\* region with nested content is not recursed into.
C7_Witness ==
  /\ pc = "decomposed"
  /\ service_config.max_depth = 2
  /\ Len(source_regions) = 2
  /\ source_regions[1].kind = "graphic"
  /\ Len(source_regions[1].sub) = 1
  /\ source_regions[1].sub[1].kind = "graphic"
  /\ source_regions[1].sub[1].sub # <<>>
  /\ Len(components[1].children) = 1
  /\ components[1].children[1].children = <<>>
  /\ source_regions[2].kind = "text"
  /\ source_regions[2].sub # <<>>
  /\ components[2].children = <<>>

\* |w/h - 16/9| / (16/9) > 2/100 in exact arithmetic.
MoreThanTwoPercentOff(w, h) == 50 * Abs(9 * w - 16 * h) > 16 * h

RECURSIVE ImagesOff(_)
ImagesOff(k) ==
  IF k = 0 THEN <<>>
  ELSE IF MoreThanTwoPercentOff(WidthOf(image_paths[k]), HeightOf(image_paths[k]))
         THEN Append(ImagesOff(k - 1), k)
         ELSE ImagesOff(k - 1)

\* C8 as stated: the warnings logged are those of the images more than 2% off
\* 16:9, one each, in image order, and the export is then called.
C8_WarnsWhenMoreThanTwoPercent ==
  slide # <<>> => ratio_warnings = ImagesOff(Len(image_paths))

\* C9 as stated: an empty batch ends with an export on a 1920x1080 canvas.
C9_EmptyBatchExported ==
  (image_paths = <<>> /\ pc = "done") =>
    /\ Len(export_call) = 1
    /\ export_call[1].slide_width_pixels = 1920
    /\ export_call[1].slide_height_pixels = 1080

\* C9 amended: with no image convert reports "No valid images found" and
\* returns: no slide size is computed, no output path is chosen and the export
\* is never called; every export call gets at least one image.
C9_EmptyBatchReturnsEarly ==
  /\ image_paths = <<>> =>
       /\ pc \in {"start", "done"}
       /\ pc = "done" => outcome = "no_images"
       /\ slide = <<>>
       /\ output_path = None
       /\ export_call = <<>>
  /\ \A c \in 1..Len(export_call) : export_call[c].editable_images # <<>>

C9_Witness ==
  /\ image_paths = <<>>
  /\ pc = "done"
  /\ outcome = "no_images"

\* The analysis block of convert has been left.
BatchReturned == pc \in {"styles", "size", "export", "done"}

\* C10 as stated: the batch analysis always eventually returns, with a
\* complete result or with a failure.
C10_BatchEventuallyReturns == <>BatchReturned

\* C11 as stated: the list of image paths handed to the batch analysis
\* contains no path twice, whatever file and directory arguments are given.
C11_NoDuplicatePaths ==
  pc = "collected" =>
    \A i, j \in 1..Len(image_paths) :
      i # j => image_paths[i] # image_paths[j]

\* The regular files with an image extension among the first n of a listing.
RECURSIVE RegularImagesOf(_, _)
RegularImagesOf(listing, n) ==
  IF n = 0 THEN <<>>
  ELSE IF /\ listing[n] \in RegularFiles
          /\ SuffixLower(listing[n]) \in image_extensions
         THEN Append(RegularImagesOf(listing, n - 1), PathResolve(listing[n]))
         ELSE RegularImagesOf(listing, n - 1)

\* What the first k arguments should yield, in argument order: an image file
\* itself, a directory's regular image files in sorted order.
RECURSIVE ExpectedPaths(_)
ExpectedPaths(k) ==
  IF k = 0 THEN <<>>
  ELSE ExpectedPaths(k - 1) \o
         (IF image_args[k] \in Directories
            THEN RegularImagesOf(sorted(iterdir(image_args[k])),
                                 Cardinality(iterdir(image_args[k])))
            ELSE RegularImagesOf(<<image_args[k]>>, 1))

\* The paths met that are not regular image files: arguments and entries of
\* directory arguments.
SkippedPaths ==
  LET met == {image_args[k] : k \in 1..Len(image_args)}
               \cup UNION {iterdir(image_args[k]) : k \in 1..Len(image_args)}
  IN  {q \in met :
         /\ q \notin {image_args[k] : k \in 1..Len(image_args)}
              \/ q \notin Directories
         /\ ~(q \in RegularFiles /\ SuffixLower(q) \in image_extensions)}

\* C15 as stated: the result is exactly the existing regular image files, in
\* argument order with directory entries sorted, and every path skipped is
\* named by a warning.
C15_OnlyExistingImageFiles ==
  pc = "collected" =>
    /\ image_paths = ExpectedPaths(Len(image_args))
    /\ \A q \in SkippedPaths :
         \E n \in 1..Len(path_warnings) : path_warnings[n][2] = q

\* C12 as stated: the output path passed to the export never names a file
\* that existed when convert was started, whatever files exist at the
\* requested path and at its renamed variant.
C12_NoExistingFileOverwritten ==
  \A n \in 1..Len(export_call) :
    export_call[n].output_file \notin existing_files

\* C13 as stated: once a ServiceConfig has been constructed none of its
\* fields is ever reassigned (so neither is it from the first submit on).
C13_NeverReassigned ==
  [][service_config # NoConfig => service_config' = service_config]_vars

\* create_service_config has returned and analysis may be under way.
ConfigReturned == pc \notin {"start", "configure", "idle"} /\ outcome # "no_images"

\* C13, amended: inside create_service_config the inpaint_registry field of
\* the constructed config is reassigned once for a non-hybrid --inpaint and
\* no field is for hybrid; after create_service_config has returned, so from
\* the first submit until the run ends, convert never writes the config.
C13_FixedOnceReturned ==
  [][/\ pc # "configure" /\ service_config # NoConfig
         => service_config' = service_config
     /\ pc = "configure" /\ inpaint = "hybrid"
         => service_config' = service_config
     /\ pc = "configure" /\ inpaint # "hybrid"
         => /\ service_config'.inpaint_registry
                 # service_config.inpaint_registry
            /\ [service_config' EXCEPT !.inpaint_registry =
                  service_config.inpaint_registry] = service_config]_vars

\* A run with a non-hybrid --inpaint got through its analysis and export
\* with the registry create_service_config assigned.
C13_Witness ==
  /\ pc = "done"
  /\ outcome = "success"
  /\ inpaint = "generative"
  /\ service_config.inpaint_registry = RegisterDefault(EmptyRegistry, "generative")

\* C14: for every non-hybrid inpaint method the configuration
\* create_service_config returns has a registry with a default provider, so no
\* analysis task exists while the registry is empty; for --inpaint baidu with
\* no Baidu provider the default is the generative provider and the warning
\* is logged (and only then).
C14_DefaultProviderRegistered ==
  /\ ConfigReturned =>
       /\ inpaint # "hybrid" =>
            service_config.inpaint_registry.default \in Providers
       /\ inpaint = "generative" =>
            service_config.inpaint_registry.default = "generative"
       /\ inpaint = "baidu" /\ baidu_provider = None =>
            /\ service_config.inpaint_registry.default = "generative"
            /\ warning_log # <<>>
            /\ warning_log[1] =
                 "Baidu inpainting unavailable, falling back to generative"
       /\ inpaint = "baidu" /\ baidu_provider # None =>
            /\ service_config.inpaint_registry.default = baidu_provider
            /\ \A n \in 1..Len(warning_log) : warning_log[n] #
                 "Baidu inpainting unavailable, falling back to generative"
  /\ \A i \in Indices :
       status[i] # "unsubmitted" =>
         service_config.inpaint_registry.default # None

\* --inpaint baidu without a Baidu provider, and an analysis task running.
C14_Witness ==
  /\ inpaint = "baidu"
  /\ baidu_provider = None
  /\ pc = "collect"
  /\ \E i \in Indices : status[i] = "running"
  /\ service_config.inpaint_registry.default = "generative"

\* The factory of the text-attribute extractor raised and was logged.
StyleFailed ==
  \E n \in 1..Len(warning_log) :
    warning_log[n] = "Failed to create text extractor"

\* C16: a failure to create the text-attribute extractor is logged and is
\* not fatal: the export is still called, with no extractor and with the
\* images and the canvas that depend on the analysis alone; with
\* --no-extract-styles no extractor is created and no failure is logged.
C16_StyleFailureNotFatal ==
  /\ ~extract_styles => text_attribute_extractor = None /\ ~StyleFailed
  /\ StyleFailed => text_attribute_extractor = None
  /\ StyleFailed /\ pc = "done" => Len(export_call) = 1
  /\ extract_styles /\ export_call # <<>> /\ text_attribute_extractor = None
       => StyleFailed
  /\ \A n \in 1..Len(export_call) :
       /\ export_call[n].text_attribute_extractor = text_attribute_extractor
       /\ export_call[n].editable_images = results
       /\ <<export_call[n].slide_width_pixels,
            export_call[n].slide_height_pixels>> = SlideSizeOf(results)
       /\ ~extract_styles => export_call[n].text_attribute_extractor = None

\* The factory raised under --extract-styles and the document was exported.
C16_Witness ==
  /\ pc = "done"
  /\ extract_styles
  /\ StyleFailed
  /\ outcome = "success"
  /\ Len(export_call) = 1
  /\ export_call[1].text_attribute_extractor = None
  /\ Len(export_call[1].editable_images) > 1

\* A task only moves forward: queued, then running, then returned, raised or
\* blocked for ever; none is taken from the queue unstarted.
TaskAdvances(i) ==
  \/ status'[i] = status[i]
  \/ status[i] = "unsubmitted" /\ status'[i] = "queued"
  \/ status[i] = "queued" /\ status'[i] = "running"
  \/ status[i] = "running" /\ status'[i] \in {"returned", "raised", "blocked"}

SomeCallBlocked == \E i \in Indices : status[i] = "blocked"

\* C17: after a failure is observed no pending task is cancelled: the tasks
\* go on to be started and run, 'Conversion failed' is reported only once
\* every submitted task has terminated, and convert terminates if and only
\* if every make_image_editable call terminates.
C17_NoTaskCancelled ==
  /\ [][\A i \in Indices : TaskAdvances(i)]_vars
  /\ [](pc = "done" /\ outcome # "no_images" => Finished = Indices)
  /\ [](SomeCallBlocked => pc # "done")
  /\ <>(pc = "done" \/ SomeCallBlocked)

\* A failure was observed while another task was still queued; that task was
\* started and returned before convert reported the failure.
C17_Witness ==
  /\ pc = "done"
  /\ outcome = "failed"
  /\ failed_idx # 0
  /\ \E i \in queued_at_failure : status[i] = "returned"

\* One step along DRAFT -> DESCRIPTION_GENERATED -> COMPLETED or FAILED.
StatusForward(before, after) ==
  \/ after = before
  \/ before = "DRAFT" /\ after = "DESCRIPTION_GENERATED"
  \/ before = "DESCRIPTION_GENERATED" /\ after \in {"COMPLETED", "FAILED"}

\* The page whose image file is at the given absolute path.
PagesAt(path) ==
  {k \in 1..Len(pages) :
     /\ pages[k].generated_image_path # None
     /\ AbsolutePath(pages[k].generated_image_path) = path}

\* The pages that have an image path whose file exists.
PagesWithImageFile ==
  {k \in 1..Len(pages) :
     /\ pages[k].generated_image_path # None
     /\ AbsolutePath(pages[k].generated_image_path) \in existing_images}

\* A list of paths names exactly the pages with an existing image file, one
\* path per page, in order_index order.
ExactlyExistingInOrder(paths) ==
  /\ Len(paths) = Cardinality(PagesWithImageFile)
  /\ \A n \in 1..Len(paths) :
       \E k \in PagesWithImageFile : PagesAt(paths[n]) = {k}
  /\ \A a, b \in 1..Len(paths) :
       a < b =>
         \A k \in PagesAt(paths[a]), l \in PagesAt(paths[b]) :
           pages[k].order_index < pages[l].order_index

\* The image loop has handled a page.
ImageLoopActed ==
  \E k \in 1..Len(pages) : pages[k].status \in {"COMPLETED", "FAILED"}

\* C18: in create a page's status only moves forward along DRAFT ->
\* DESCRIPTION_GENERATED -> COMPLETED or FAILED; no image is generated while
\* a page is still DRAFT; a page is COMPLETED exactly when it has a generated
\* image path; the export gets exactly the pages with an existing image
\* file, in order_index order, and is not called when there is none.
C18_CreateStatusFlow ==
  /\ [][\A k \in 1..Len(pages) :
          /\ Len(pages') = Len(pages)
          /\ StatusForward(pages[k].status, pages'[k].status)]_vars
  /\ [](\A k \in 1..Len(pages) :
          /\ pages[k].status \in
               {"DRAFT", "DESCRIPTION_GENERATED", "COMPLETED", "FAILED"}
          /\ pages[k].status = "COMPLETED"
               <=> pages[k].generated_image_path # None)
  /\ []((pc = "create_images" \/ ImageLoopActed)
          => \A k \in 1..Len(pages) : pages[k].status # "DRAFT")
  /\ [](/\ Len(create_export_call) <= 1
        /\ \A n \in 1..Len(create_export_call) :
             /\ create_export_call[n] # <<>>
             /\ ExactlyExistingInOrder(create_export_call[n])
        /\ pc = "create_done" /\ create_outcome # "raised" =>
             /\ create_export_call = <<>> <=> PagesWithImageFile = {}
             /\ create_outcome = "no_images" <=> PagesWithImageFile = {})

\* create ended with a page FAILED, a page COMPLETED whose file is gone and
\* an export of the pages whose files exist.
C18_Witness ==
  /\ pc = "create_done"
  /\ create_outcome = "success"
  /\ \E k \in 1..Len(pages) : pages[k].status = "FAILED"
  /\ \E k \in 1..Len(pages) :
       /\ pages[k].status = "COMPLETED"
       /\ k \notin PagesWithImageFile
  /\ Len(create_export_call) = 1
  /\ Len(create_export_call[1]) >= 1

====
